---- MODULE Spec2Model ----
(***************************************************************************)
(* Moderation-report lifecycle of the trees-backend service: report        *)
(* submission (routes/reports.js, routes/contentReports.js), moderator     *)
(* operations (routes/reports.js, routes/admin.js, routes/admin-old.js)    *)
(* and the consequences they apply to user accounts; with them the live    *)
(* streams of routes/streams.js and the admin notifications of             *)
(* routes/admin.js, each under a specification of its own.                 *)
(*                                                                         *)
(* Every request handler is an async function: each `await` on the store   *)
(* is a point where another request may run, so a handler is modelled as   *)
(* one action per awaited store call that another request can observe.     *)
(***************************************************************************)
EXTENDS Integers, Sequences, FiniteSets, TLC

(* ----------------------------- bounds ---------------------------------- *)

\* Number of report documents that can ever be created (ObjectIds are never reused).
MaxReports == 2

\* Number of moderator requests that can ever reach a stored report (each may
\* append one entry to an action log; the entry carries the request's number).
MaxOps == 2

\* Requests that can be in flight at once.
Procs == {"p1", "p2"}

(* ----------------------------- universe -------------------------------- *)

\* Accounts in the User collection, with their role.
Users == {"u1", "u2", "adm"}

\* A user id that names no stored user.
NoUser == "nobody"

role == [u \in Users |-> IF u = "adm" THEN "admin" ELSE "user"]

\* The account that files reports
Reporters == {"u1"}

\* Posts in the Post collection, and an id that names no post.
Posts == {"post1"}

NoPost == "postX"

ContentTypes == {"post", "reel", "story", "comment"}

\* contentReportSchema.status enum
Statuses == {"pending", "under_review", "resolved", "dismissed", "escalated"}

OpenStatuses == {"pending", "under_review", "escalated"}

TerminalStatuses == {"resolved", "dismissed"}

\* body('action').isIn([...]) of PUT /:reportId/action
TakeActions == {"none", "warning", "temporary_ban", "permanent_ban",
                "content_removal", "profile_restriction"}

BanActions == {"temporary_ban", "permanent_ban"}

\* body('status').isIn([...]) of PUT /:reportId/status
StatusWireValues == {"pending", "investigating", "resolved", "dismissed"}

\* The actions PATCH /moderation/reports/:id/moderate accepts
ModerateActions == {"approve", "reject", "mark_safe"}

\* body('details').isLength({ min: 10, ... }) of PUT /:reportId/action
MinDetails == 10

(* ----------------------------- state ----------------------------------- *)

VARIABLES
  reports,    \* the Report and ContentReport collections: id -> document
  nextId,     \* the next report id to be allocated
  users,      \* the User collection: id -> account state
  proc,       \* the requests in flight: process -> request record
  nreq,       \* number of moderator requests that have reached a report
  dirCalls,   \* the suspend writes PUT /:reportId/action has applied
  adminLog,   \* the AdminLog collection, in order of creation
  lastResult, \* the response the last step sent, "none" when it sent none
  listed,     \* the ids of the data array of the last GET /all response
  streams,    \* the Stream collection: id -> document
  adminNotifications, \* the AdminNotification collection: id -> document
  notifications       \* the Notification collection: per-user records

vars == <<reports, nextId, users, proc, nreq, dirCalls, adminLog, lastResult,
          listed, streams, adminNotifications, notifications>>

\* The collections the report handlers never touch
otherVars == <<listed, streams, adminNotifications, notifications>>

ReportIds == 1..MaxReports

IdleProc == [pc |-> "idle", op |-> "none", caller |-> "none", kind |-> "none",
             target |-> "none", rid |-> 0, action |-> "none",
             newStatus |-> "none", allowed |-> TRUE, loadedResolved |-> FALSE,
             req |-> 0]

\* Documents a query over the store can see
Stored == DOMAIN reports

\* Report.findById(id): only documents of the user-report collection
FindReport(rid) == rid \in Stored /\ reports[rid].kind = "user"

IsOpen(r) == r.status \in OpenStatuses

\* The open reports of one (reporter, targetKind, targetId) tuple
OpenFor(rep, kind, target) ==
  {i \in Stored : /\ reports[i].reporter = rep
                  /\ reports[i].kind = kind
                  /\ reports[i].target = target
                  /\ IsOpen(reports[i])}

\* totalViews is streamerProfile.totalViews
InitUser == [status |-> "active", suspendedUntil |-> "none", isActive |-> TRUE,
             totalViews |-> 0]

Init ==
  /\ reports = <<>>
  /\ nextId = 1
  /\ users = [u \in Users |-> InitUser]
  /\ proc = [p \in Procs |-> IdleProc]
  /\ nreq = 0
  /\ dirCalls = {}
  /\ adminLog = <<>>
  /\ lastResult = "none"
  /\ listed = <<>>
  /\ streams = <<>>
  /\ adminNotifications = <<>>
  /\ notifications = {}

Free(p) == proc[p].pc = "idle"

\* A moderator request can load a report while the request budget lasts
CanStart(p) == Free(p) /\ nreq < MaxOps

\* Submissions that have passed their checks but have not saved yet
PendingSubmits == {q \in Procs : proc[q].pc \in {"sub_lookup", "sub_save"}}

CanSubmit(p) ==
  Free(p) /\ (nextId - 1) + Cardinality(PendingSubmits) < MaxReports

\* The handler answers and its slot is free again
Respond(p, res) ==
  /\ lastResult' = res
  /\ proc' = [proc EXCEPT ![p] = IdleProc]

(* ----------------------------- submission ------------------------------ *)

\* A faulty variant: every content target counts as existing
TargetExistsAlways(type, targetId) == TRUE

\* Post.findById(targetId) for type 'post'; no lookup exists for the other types
TargetExists(type, targetId) == type = "post" /\ targetId \in Posts

\* A faulty variant: no self-report check
IsSelfReportNever(caller, reportedUserId) == FALSE

\* if (reportedUserId === req.user.id)
IsSelfReport(caller, reportedUserId) == reportedUserId = caller

\* handleUserReport up to the duplicate lookup
SubmitUserStart(p, caller, reportedUserId) ==
  /\ CanSubmit(p)
  /\ IF IsSelfReport(caller, reportedUserId)
       THEN Respond(p, "self_report")
     ELSE IF reportedUserId \notin Users
       THEN Respond(p, "target_not_found")
     ELSE /\ proc' = [proc EXCEPT ![p] =
               [IdleProc EXCEPT !.pc = "sub_lookup", !.op = "submit",
                                !.caller = caller, !.kind = "user",
                                !.target = reportedUserId]]
          /\ lastResult' = "none"
  /\ UNCHANGED <<reports, nextId, users, nreq, dirCalls, adminLog>>
  /\ UNCHANGED otherVars

\* handleContentReport (and POST / of the content-report router) up to the
\* duplicate lookup
SubmitContentStart(p, caller, type, targetId) ==
  /\ CanSubmit(p)
  /\ IF ~TargetExists(type, targetId)
       THEN Respond(p, "target_not_found")
     ELSE /\ proc' = [proc EXCEPT ![p] =
               [IdleProc EXCEPT !.pc = "sub_lookup", !.op = "submit",
                                !.caller = caller, !.kind = type,
                                !.target = targetId]]
          /\ lastResult' = "none"
  /\ UNCHANGED <<reports, nextId, users, nreq, dirCalls, adminLog>>
  /\ UNCHANGED otherVars

\* A mutant: the duplicate lookup matches pending reports only
HasReportedPendingOnly(rep, kind, target) ==
  \E i \in Stored : /\ reports[i].reporter = rep
                    /\ reports[i].kind = kind
                    /\ reports[i].target = target
                    /\ reports[i].status = "pending"

\* Report.findOne({reporter, reportedUser}) / ContentReport.findOne({reporter,
\* targetType, targetId}): the filter names no status
HasReported(rep, kind, target) ==
  \E i \in Stored : /\ reports[i].reporter = rep
                    /\ reports[i].kind = kind
                    /\ reports[i].target = target

\* The duplicate check: the findOne and the 400 it leads to
SubmitLookup(p) ==
  /\ proc[p].pc = "sub_lookup"
  /\ IF HasReported(proc[p].caller, proc[p].kind, proc[p].target)
       THEN Respond(p, "duplicate")
       ELSE /\ proc' = [proc EXCEPT ![p].pc = "sub_save"]
            /\ lastResult' = "none"
  /\ UNCHANGED <<reports, nextId, users, nreq, dirCalls, adminLog>>
  /\ UNCHANGED otherVars

\* metadata: {reporterIP: req.ip, reporterUserAgent: req.get('User-Agent')} of a
\* submit, with the creation time the schema stamps; ids rise with time
Context(rep, at) ==
  [reporterIP |-> "ip_" \o rep, reporterUserAgent |-> "agent_" \o rep, timestamp |-> at]

\* A document created without metadata holds its creation time only
NoContext(at) ==
  [reporterIP |-> "none", reporterUserAgent |-> "none", timestamp |-> at]

\* new Report({...}) / new ContentReport({...}): status takes the schema default
NewReport(rep, kind, target, context) ==
  [kind |-> kind, reporter |-> rep, target |-> target, status |-> "pending",
   actionsTaken |-> <<>>, context |-> context]

\* report.save() of a new document, and the 201
SubmitSave(p) ==
  /\ proc[p].pc = "sub_save"
  /\ nextId <= MaxReports
  /\ reports' = reports @@
       (nextId :> NewReport(proc[p].caller, proc[p].kind, proc[p].target,
                            Context(proc[p].caller, nextId)))
  /\ nextId' = nextId + 1
  /\ Respond(p, "created")
  /\ UNCHANGED <<users, nreq, dirCalls, adminLog>>
  /\ UNCHANGED otherVars

\* User.find().limit(2): the first two users of the collection, the admin
\* account being its oldest document
FirstUsers == <<"adm", "u2">>

\* POST /debug/create-test-report: a report by the first user against the
\* second, saved without any duplicate lookup
CreateTestReport ==
  /\ (nextId - 1) + Cardinality(PendingSubmits) < MaxReports
  /\ reports' = reports @@
       (nextId :> NewReport(FirstUsers[1], "user", FirstUsers[2], NoContext(nextId)))
  /\ nextId' = nextId + 1
  /\ lastResult' = "test_created"
  /\ UNCHANGED <<users, proc, nreq, dirCalls, adminLog>>
  /\ UNCHANGED otherVars

(* ----------------------------- documents ------------------------------ *)

\* One element of actionsTaken; req stands for the subdocument's own _id and
\* timestamp, which no two pushes share
Entry(action, by, req) == [action |-> action, by |-> by, req |-> req]

\* A mutant: the handler assigns actionsTaken instead of pushing onto it
SaveDocAssign(stored, pushed, status) ==
  [stored EXCEPT !.status = status, !.actionsTaken = pushed]

\* A mutant: save() replaces the stored document by one rebuilt from the
\* fields the handler set, so the submission metadata is lost
SaveDocReplace(stored, pushed, status) ==
  [stored EXCEPT !.status = status, !.actionsTaken = @ \o pushed,
                 !.context = NoContext(@.timestamp)]

\* A mutant: the handler unshifts the entry instead of pushing it
SaveDocUnshift(stored, pushed, status) ==
  [stored EXCEPT !.status = status, !.actionsTaken = pushed \o @]

\* report.save() of a loaded document whose status was assigned and whose
\* actionsTaken was pushed onto: the update sent is {$set: {status}, $push:
\* {actionsTaken: {$each: pushed}}}, applied to the document as stored
SaveDoc(stored, pushed, status) ==
  [stored EXCEPT !.status = status, !.actionsTaken = @ \o pushed]

\* The request record of a handler that has loaded report rid and set the
\* fields it is about to save
Loaded(op, pc, caller, rid, action, newStatus) ==
  [IdleProc EXCEPT !.pc = pc, !.op = op, !.caller = caller, !.rid = rid,
                   !.target = reports[rid].target,
                   !.action = action, !.newStatus = newStatus,
                   !.loadedResolved = (reports[rid].status = "resolved"),
                   !.req = nreq + 1]

\* The push and the save of a loaded report: the write succeeds, or it throws
\* (the document was deleted meanwhile, a validator refused it, the store is
\* down) and the handler answers 500
PushAndSave(p, op) ==
  /\ proc[p].pc = "save"
  /\ proc[p].op = op
  /\ \/ /\ proc[p].rid \in Stored
        /\ reports' = [reports EXCEPT ![proc[p].rid] =
             SaveDoc(@, <<Entry(proc[p].action, proc[p].caller, proc[p].req)>>,
                     proc[p].newStatus)]
        /\ Respond(p, "ok")
     \/ /\ reports' = reports
        /\ Respond(p, "error")
  /\ UNCHANGED <<nextId, users, nreq, dirCalls, adminLog>>
  /\ UNCHANGED otherVars

(* ----------------------------- admin router ---------------------------- *)

\* switch (action) of PATCH /moderation/reports/:id/moderate
ModerateStatus(action) == IF action = "reject" THEN "dismissed" ELSE "resolved"

\* The action name PATCH /moderation/reports/:id/moderate pushes
ModerateLogged(action) == IF action = "reject" THEN "content_removal" ELSE "no_action"

\* PATCH /moderation/reports/:id/moderate up to Report.findById
ModerateLoad(p, rid, action) ==
  /\ CanStart(p)
  /\ IF action \notin ModerateActions
       THEN Respond(p, "invalid_action") /\ nreq' = nreq
     ELSE IF ~FindReport(rid)
       THEN Respond(p, "not_found") /\ nreq' = nreq
     ELSE /\ proc' = [proc EXCEPT ![p] =
               Loaded("moderate", "save", "adm", rid, ModerateLogged(action),
                      ModerateStatus(action))]
          /\ nreq' = nreq + 1
          /\ lastResult' = "none"
  /\ UNCHANGED <<reports, nextId, users, dirCalls, adminLog>>
  /\ UNCHANGED otherVars

\* report.status = status; report.actionsTaken.push(...); await report.save()
ModerateSave(p) == PushAndSave(p, "moderate")

\* PATCH /moderation/content/:id/resolve up to Report.findById
ResolveLoad(p, rid) ==
  /\ CanStart(p)
  /\ IF ~FindReport(rid)
       THEN Respond(p, "not_found") /\ nreq' = nreq
     ELSE /\ proc' = [proc EXCEPT ![p] =
               Loaded("resolve", "save", "adm", rid, "content_removal", "resolved")]
          /\ nreq' = nreq + 1
          /\ lastResult' = "none"
  /\ UNCHANGED <<reports, nextId, users, dirCalls, adminLog>>
  /\ UNCHANGED otherVars

\* report.status = 'resolved'; report.actionsTaken.push(...); await report.save()
ResolveSave(p) == PushAndSave(p, "resolve")

\* DELETE /moderation/content/:id
DeleteReport(rid) ==
  /\ nreq < MaxOps
  /\ FindReport(rid)
  /\ reports' = [i \in Stored \ {rid} |-> reports[i]]
  /\ nreq' = nreq + 1
  /\ lastResult' = "none"
  /\ UNCHANGED <<nextId, users, proc, dirCalls, adminLog>>
  /\ UNCHANGED otherVars

\* POST /moderation/ban-user/:userId up to user.save(): the reason check, the
\* user lookup and the write of the ban onto the user, which may throw
BanUserStart(p, userId, hasReason, reportId) ==
  /\ CanStart(p)
  /\ \/ /\ ~hasReason
        /\ Respond(p, "validation")
        /\ UNCHANGED <<users, nreq>>
     \/ /\ hasReason
        /\ userId \notin Users
        /\ Respond(p, "not_found")
        /\ UNCHANGED <<users, nreq>>
     \/ /\ hasReason
        /\ userId \in Users
        /\ users' = [users EXCEPT ![userId].isActive = FALSE]
        /\ IF reportId = 0
             THEN Respond(p, "ok") /\ nreq' = nreq
             ELSE /\ proc' = [proc EXCEPT ![p] =
                       [IdleProc EXCEPT !.pc = "ban_find", !.op = "ban_user",
                                        !.caller = "adm", !.target = userId,
                                        !.rid = reportId, !.action = "ban",
                                        !.req = nreq + 1]]
                  /\ nreq' = nreq + 1
                  /\ lastResult' = "none"
     \/ /\ hasReason
        /\ userId \in Users
        /\ Respond(p, "error")
        /\ UNCHANGED <<users, nreq>>
  /\ UNCHANGED <<reports, nextId, dirCalls, adminLog>>
  /\ UNCHANGED otherVars

\* if (reportId) { const report = await Report.findById(reportId); if (report) ...
BanUserFindReport(p) ==
  /\ proc[p].pc = "ban_find"
  /\ IF ~FindReport(proc[p].rid)
       THEN Respond(p, "ok")
       ELSE /\ proc' = [proc EXCEPT ![p] =
                 [proc[p] EXCEPT !.pc = "save", !.newStatus = "resolved",
                                 !.loadedResolved =
                                    (reports[proc[p].rid].status = "resolved")]]
            /\ lastResult' = "none"
  /\ UNCHANGED <<reports, nextId, users, nreq, dirCalls, adminLog>>
  /\ UNCHANGED otherVars

\* report.status = 'resolved'; report.actionsTaken.push({action: 'ban', ...});
\* await report.save()
BanUserSaveReport(p) == PushAndSave(p, "ban_user")

(* ----------------------------- admin-old router ------------------------ *)

\* The record AdminLog.create({admin, action: 'report_reviewed', target, details})
\* stores
AuditRecord(admin, rid, status) == [admin |-> admin, rid |-> rid, status |-> status]

\* PATCH /reports/:id: Report.findByIdAndUpdate(id, {status, action, reviewedBy,
\* reviewedAt}), one atomic update with the status the body carries, then
\* AdminLog.create. The router's own auth middleware is commented out: where
\* nothing upstream sets req.user, reading req.user.id throws before the update;
\* AdminLog.create may throw after it
AdminPatchReport(rid, status, hasUser) ==
  /\ nreq < MaxOps
  /\ FindReport(rid)
  /\ \/ /\ ~hasUser
        /\ lastResult' = "error"
        /\ UNCHANGED <<reports, nreq, adminLog>>
     \/ /\ hasUser
        /\ reports' = [reports EXCEPT ![rid].status = status]
        /\ nreq' = nreq + 1
        /\ \/ /\ adminLog' = Append(adminLog, AuditRecord("adm", rid, status))
              /\ lastResult' = "none"
           \/ /\ adminLog' = adminLog
              /\ lastResult' = "error"
  /\ UNCHANGED <<nextId, users, proc, dirCalls>>
  /\ UNCHANGED otherVars

(* ----------------------------- reports router -------------------------- *)

\* A faulty variant: the role check lets every caller through
IsModeratorAnyone(caller) == TRUE

\* user.role !== 'admin' && user.role !== 'moderator' answers 403
IsModerator(caller) == role[caller] \in {"admin", "moderator"}

\* The edges of the status state machine
Edges == {<<"pending", "under_review">>, <<"under_review", "resolved">>,
          <<"under_review", "dismissed">>, <<"under_review", "escalated">>,
          <<"escalated", "under_review">>}

\* What a method of the loaded document decides from the status it was loaded
\* with: takeAction refuses a terminal report, updateStatus a status that is no
\* edge from the loaded one
AllowedFrom(op, loadedStatus, newStatus) ==
  IF op = "take_action" THEN loadedStatus \notin TerminalStatuses
  ELSE <<loadedStatus, newStatus>> \in Edges

\* The loaded report with the request's own fields
LoadedFor(op, pc, caller, rid, action, newStatus) ==
  [Loaded(op, pc, caller, rid, action, newStatus)
     EXCEPT !.allowed = AllowedFrom(op, reports[rid].status, newStatus)]

\* A faulty variant: the details validator is missing
ValidTakeActionAnyDetails(action, detailsLen) == action \in TakeActions

\* body('action').isIn([...]) and body('details').isString().trim().isLength({min: 10, ...})
ValidTakeAction(action, detailsLen) ==
  action \in TakeActions /\ detailsLen >= MinDetails

\* PUT /:reportId/action up to Report.findById: the validators, the role check
\* and the load
TakeActionLoad(p, caller, rid, action, detailsLen) ==
  /\ CanStart(p)
  /\ IF ~ValidTakeAction(action, detailsLen)
       THEN Respond(p, "action_rejected") /\ nreq' = nreq
     ELSE IF ~IsModerator(caller)
       THEN Respond(p, "forbidden") /\ nreq' = nreq
     ELSE IF ~FindReport(rid)
       THEN Respond(p, "not_found") /\ nreq' = nreq
     ELSE /\ proc' = [proc EXCEPT ![p] =
               LoadedFor("take_action", "ta_apply", caller, rid, action, "resolved")]
          /\ nreq' = nreq + 1
          /\ lastResult' = "none"
  /\ UNCHANGED <<reports, nextId, users, dirCalls, adminLog>>
  /\ UNCHANGED otherVars

\* Whether an entry of the log carries the idempotency key (action, actorId);
\* the report id is the log's own
HasKey(log, action, by) ==
  \E i \in DOMAIN log : log[i].action = action /\ log[i].by = by

\* report.takeAction(action, details, actorId), a method of the loaded document:
\* an action whose (action, actor) key the log already holds is a no-op; a
\* terminal report refuses any other action; otherwise the entry is appended
\* and the report resolved in one versioned update of the stored document
TakeActionOutcome(allowed, stored, action, by) ==
  IF HasKey(stored.actionsTaken, action, by) THEN "noop"
  ELSE IF ~allowed THEN "invalid_transition"
  ELSE "applied"

\* await report.takeAction(action, details, req.user.id): a throw is answered
\* 500 by the handler's catch; after a normal return a ban goes on to the user
TakeActionApply(p) ==
  /\ proc[p].pc = "ta_apply"
  /\ LET r == proc[p]
         out == IF r.rid \in Stored
                  THEN TakeActionOutcome(r.allowed, reports[r.rid], r.action, r.caller)
                  ELSE "error"
     IN /\ reports' = IF out = "applied"
                        THEN [reports EXCEPT ![r.rid] =
                                SaveDoc(@, <<Entry(r.action, r.caller, r.req)>>, r.newStatus)]
                        ELSE reports
        /\ IF out \in {"invalid_transition", "error"}
             THEN Respond(p, out)
           ELSE IF r.action \in BanActions
             THEN /\ proc' = [proc EXCEPT ![p].pc = "ta_suspend"]
                  /\ lastResult' = "none"
           ELSE Respond(p, "ok")
  /\ UNCHANGED <<nextId, users, nreq, dirCalls, adminLog>>
  /\ UNCHANGED otherVars

\* A faulty variant: the update sets nothing
SuspendedNothing(u, action) == u

\* The fields User.findByIdAndUpdate(report.reportedUser, {...}) sets
Suspended(u, action) ==
  [u EXCEPT !.status = "suspended",
            !.suspendedUntil = IF action = "temporary_ban" THEN "in7days" ELSE @]

\* await User.findByIdAndUpdate(report.reportedUser, {status: 'suspended', ...}):
\* the write is applied, or it throws and the handler answers 500
TakeActionSuspend(p) ==
  /\ proc[p].pc = "ta_suspend"
  /\ \/ /\ users' = [users EXCEPT ![proc[p].target] = Suspended(@, proc[p].action)]
        /\ dirCalls' = dirCalls \cup
             {[rid |-> proc[p].rid, action |-> proc[p].action,
               by |-> proc[p].caller, req |-> proc[p].req]}
        /\ Respond(p, "ok")
     \/ /\ UNCHANGED <<users, dirCalls>>
        /\ Respond(p, "error")
  /\ UNCHANGED <<reports, nextId, nreq, adminLog>>
  /\ UNCHANGED otherVars

\* The status a request value names: the user-report model calls the review
\* state 'investigating'
StatusOfWire(w) == IF w = "investigating" THEN "under_review" ELSE w

\* PUT /:reportId/status up to Report.findById
UpdateStatusLoad(p, caller, rid, status) ==
  /\ CanStart(p)
  /\ IF status \notin StatusWireValues
       THEN Respond(p, "validation") /\ nreq' = nreq
     ELSE IF ~IsModerator(caller)
       THEN Respond(p, "forbidden") /\ nreq' = nreq
     ELSE IF ~FindReport(rid)
       THEN Respond(p, "not_found") /\ nreq' = nreq
     ELSE /\ proc' = [proc EXCEPT ![p] =
               LoadedFor("update_status", "us_apply", caller, rid,
                         StatusOfWire(status), StatusOfWire(status))]
          /\ nreq' = nreq + 1
          /\ lastResult' = "none"
  /\ UNCHANGED <<reports, nextId, users, dirCalls, adminLog>>
  /\ UNCHANGED otherVars

\* await report.updateStatus(status, req.user.id, note), a method of the loaded
\* document: a status that is no edge from the loaded one is refused; otherwise
\* the status is set and the transition appended in one update
UpdateStatusApply(p) ==
  /\ proc[p].pc = "us_apply"
  /\ LET r == proc[p]
     IN IF r.rid \notin Stored
          THEN reports' = reports /\ Respond(p, "error")
        ELSE IF ~r.allowed
          THEN reports' = reports /\ Respond(p, "invalid_transition")
        ELSE /\ reports' = [reports EXCEPT ![r.rid] =
                  SaveDoc(@, <<Entry(r.action, r.caller, r.req)>>, r.newStatus)]
             /\ Respond(p, "ok")
  /\ UNCHANGED <<nextId, users, nreq, dirCalls, adminLog>>
  /\ UNCHANGED otherVars

Next ==
  \/ \E p \in Procs, c \in Reporters, t \in {"u1", "u2", NoUser} :
       SubmitUserStart(p, c, t)
  \/ \E p \in Procs, c \in Reporters, ty \in ContentTypes, t \in Posts \cup {NoPost} :
       SubmitContentStart(p, c, ty, t)
  \/ \E p \in Procs : SubmitLookup(p)
  \/ \E p \in Procs : SubmitSave(p)
  \/ CreateTestReport
  \/ \E p \in Procs, rid \in ReportIds, a \in ModerateActions \cup {"bogus"} :
       ModerateLoad(p, rid, a)
  \/ \E p \in Procs : ModerateSave(p)
  \/ \E p \in Procs, rid \in ReportIds : ResolveLoad(p, rid)
  \/ \E p \in Procs : ResolveSave(p)
  \/ \E rid \in ReportIds : DeleteReport(rid)
  \/ \E p \in Procs, u \in {"u2", NoUser}, hr \in BOOLEAN, rid \in ReportIds \cup {0} :
       BanUserStart(p, u, hr, rid)
  \/ \E p \in Procs : BanUserFindReport(p)
  \/ \E p \in Procs : BanUserSaveReport(p)
  \/ \E rid \in ReportIds, st \in Statuses, hu \in BOOLEAN :
        AdminPatchReport(rid, st, hu)
  \/ \E p \in Procs, c \in {"u1", "adm"}, rid \in ReportIds,
        a \in {"warning", "temporary_ban", "permanent_ban", "bogus"},
        n \in {MinDetails - 1, MinDetails} :
       TakeActionLoad(p, c, rid, a, n)
  \/ \E p \in Procs : TakeActionApply(p)
  \/ \E p \in Procs : TakeActionSuspend(p)
  \/ \E p \in Procs, c \in {"u1", "adm"}, rid \in ReportIds,
        st \in StatusWireValues \cup {"escalated"} :
       UpdateStatusLoad(p, c, rid, st)
  \/ \E p \in Procs : UpdateStatusApply(p)

Spec == Init /\ [][Next]_vars

(* ----------------------------- access control -------------------------- *)

\* The two routes of the reports router that check the caller's role before
\* they write, over reports filed by the debug route
NextAccess ==
  \/ CreateTestReport
  \/ \E p \in Procs, c \in {"u1", "adm"}, rid \in ReportIds,
        a \in {"warning", "temporary_ban", "permanent_ban", "bogus"},
        n \in {MinDetails - 1, MinDetails} :
       TakeActionLoad(p, c, rid, a, n)
  \/ \E p \in Procs : TakeActionApply(p)
  \/ \E p \in Procs : TakeActionSuspend(p)
  \/ \E p \in Procs, c \in {"u1", "adm"}, rid \in ReportIds,
        st \in StatusWireValues \cup {"escalated"} :
       UpdateStatusLoad(p, c, rid, st)
  \/ \E p \in Procs : UpdateStatusApply(p)

SpecAccess == Init /\ [][NextAccess]_vars

(* ----------------------------- priority -------------------------------- *)

\* Number of reports created in the specification of the priority stamp
MaxStamped == 2

\* enum of severity and of priority in the content-report schema, in rising order
Tiers == <<"low", "medium", "high", "urgent">>

TierNames == {Tiers[k] : k \in DOMAIN Tiers}

\* enum of reportType in the content-report schema
ReportTypes == {"inappropriate_content", "harassment", "spam", "hate_speech",
                "violence", "sexual_content", "self_harm", "bullying",
                "misinformation", "copyright_violation", "privacy_violation",
                "scam", "other"}

\* Reason texts a client sends, as the words between their runs of whitespace
ReasonTexts == {<<"Spam">>, <<"Self", "harm">>, <<"Violence">>, <<"other">>,
                <<"Nudity">>}

\* String.prototype.toLowerCase on the words above
ToLowerCase(w) ==
  CASE w = "Spam" -> "spam"
    [] w = "Self" -> "self"
    [] w = "Violence" -> "violence"
    [] w = "Nudity" -> "nudity"
    [] OTHER -> w

RECURSIVE JoinWords(_)
\* replace(/\s+/g, '_'): every run of whitespace becomes one underscore
JoinWords(ws) ==
  IF Len(ws) = 1 THEN ws[1] ELSE ws[1] \o "_" \o JoinWords(Tail(ws))

\* reason.toLowerCase().replace(/\s+/g, '_')
ReportTypeOf(ws) == JoinWords([k \in DOMAIN ws |-> ToLowerCase(ws[k])])

\* A severity as a request or a document carries it: a tier name, a number, or
\* nothing
Tier(t) == [tag |-> "tier", tier |-> t, num |-> 0]

Num(n) == [tag |-> "num", tier |-> "none", num |-> n]

Absent == [tag |-> "absent", tier |-> "none", num |-> 0]

\* Position of a tier on the ordinal scale 1..4
TierRank(t) == CHOOSE k \in DOMAIN Tiers : Tiers[k] = t

\* A faulty variant: severity 8 is only high
NormalizedSeverityHigh8(sev) ==
  IF sev.tag = "tier" THEN sev.tier
  ELSE IF sev.num >= 9 THEN "urgent"
  ELSE IF sev.num >= 6 THEN "high"
  ELSE IF sev.num >= 3 THEN "medium"
  ELSE "low"

\* Severity on the tier scale: a tier is itself, a number is urgent from 8,
\* high from 6, medium from 3, low below
NormalizedSeverity(sev) ==
  IF sev.tag = "tier" THEN sev.tier
  ELSE IF sev.num >= 8 THEN "urgent"
  ELSE IF sev.num >= 6 THEN "high"
  ELSE IF sev.num >= 3 THEN "medium"
  ELSE "low"

\* A faulty variant: no reason carries a floor
ReasonFloorNone(reasonCode) == "low"

\* The least priority a reason code allows
ReasonFloor(reasonCode) ==
  IF reasonCode \in {"self_harm", "violence"} THEN "high" ELSE "low"

MaxTier(a, b) == IF TierRank(a) >= TierRank(b) THEN a ELSE b

\* priority = max(normalizedSeverity, reasonFloor)
PriorityOf(reasonCode, sev) == MaxTier(NormalizedSeverity(sev), ReasonFloor(reasonCode))

\* The default of the priority path of the content-report schema; no handler
\* and no hook of the schema assigns the path
DefaultPriority == "medium"

\* const {severity = 'medium'} = req.body
ContentSeverity(sent) == IF sent = Absent THEN Tier("medium") ELSE sent

\* new ContentReport({reportType: reason.toLowerCase().replace(/\s+/g, '_'),
\* severity, ...}): priority takes the schema default
NewContentReport(reasonWords, sent) ==
  [kind |-> "post", reportType |-> ReportTypeOf(reasonWords),
   severity |-> ContentSeverity(sent), priority |-> DefaultPriority]

\* The enum validators of the content-report schema, run by save(); a number
\* is cast to a string that is no member of the severity enum
ValidContentReport(doc) ==
  /\ doc.reportType \in ReportTypes
  /\ doc.severity.tag = "tier"
  /\ doc.severity.tier \in TierNames

\* handleContentReport from new ContentReport({...}) to the response: save()
\* stores the document, or a validator refuses it and the request ends in 500
ContentReportSave(reasonWords, sent) ==
  /\ nextId <= MaxStamped
  /\ LET doc == NewContentReport(reasonWords, sent)
     IN IF ValidContentReport(doc)
          THEN /\ reports' = reports @@ (nextId :> doc)
               /\ nextId' = nextId + 1
               /\ lastResult' = "created"
          ELSE /\ UNCHANGED <<reports, nextId>>
               /\ lastResult' = "error"
  /\ UNCHANGED <<users, proc, nreq, dirCalls, adminLog>>
  /\ UNCHANGED otherVars

\* req.body.severity || 5
UserSeverity(sent) == IF sent = Absent \/ sent = Num(0) THEN Num(5) ELSE sent

\* handleUserReport from new Report({...}) to the response; the user-report
\* schema stamps the priority on the document
UserReportSave(reportType, sent) ==
  /\ nextId <= MaxStamped
  /\ reports' = reports @@
       (nextId :> [kind |-> "user", reportType |-> reportType,
                   severity |-> UserSeverity(sent),
                   priority |-> PriorityOf(reportType, UserSeverity(sent))])
  /\ nextId' = nextId + 1
  /\ lastResult' = "created"
  /\ UNCHANGED <<users, proc, nreq, dirCalls, adminLog>>
  /\ UNCHANGED otherVars

\* const {page = 1, limit = 50} = req.query
DefaultLimit == 50

\* The UTF-16 code units of the strings the priority path holds
CodeUnits(str) ==
  CASE str = "low" -> <<108, 111, 119>>
    [] str = "medium" -> <<109, 101, 100, 105, 117, 109>>
    [] str = "high" -> <<104, 105, 103, 104>>
    [] str = "urgent" -> <<117, 114, 103, 101, 110, 116>>

RECURSIVE SeqLess(_, _)
\* Binary comparison of two strings, unit by unit; a proper prefix is smaller
SeqLess(a, b) ==
  IF b = <<>> THEN FALSE
  ELSE IF a = <<>> THEN TRUE
  ELSE IF a[1] # b[1] THEN a[1] < b[1]
  ELSE SeqLess(Tail(a), Tail(b))

\* .sort({priority: -1, createdAt: -1}): the priority strings in descending
\* binary order, then the newer document first (ids rise with createdAt)
SortsBefore(x, y) ==
  \/ SeqLess(CodeUnits(reports[y].priority), CodeUnits(reports[x].priority))
  \/ reports[x].priority = reports[y].priority /\ x > y

RECURSIVE Sorted(_)
\* The documents of a set of ids in the order of the sort
Sorted(ids) ==
  IF ids = {} THEN <<>>
  ELSE LET first == CHOOSE x \in ids : \A y \in ids \ {x} : SortsBefore(x, y)
       IN <<first>> \o Sorted(ids \ {first})

\* Report.find(query): the user reports whose priority the filter names, or
\* all of them without a filter
Matching(priority) ==
  {i \in Stored : /\ reports[i].kind = "user"
                   /\ (priority = "none" \/ reports[i].priority = priority)}

\* .skip(skip).limit(limit) on the sorted result
Page(docs, skip, limit) ==
  SubSeq(docs, skip + 1, IF skip + limit < Len(docs) THEN skip + limit ELSE Len(docs))

\* GET /all: the role check, then Report.find(query).sort(...).skip(...).limit(...)
GetAll(caller, priority, page) ==
  /\ IF ~IsModerator(caller)
       THEN /\ lastResult' = "forbidden"
            /\ listed' = listed
       ELSE /\ lastResult' = "listed"
            /\ listed' = Page(Sorted(Matching(priority)), (page - 1) * DefaultLimit,
                              DefaultLimit)
  /\ UNCHANGED <<reports, nextId, users, proc, nreq, dirCalls, adminLog,
                 streams, adminNotifications, notifications>>

NextPriority ==
  \/ \E ws \in ReasonTexts,
        sent \in {Tier(t) : t \in TierNames \cup {"critical"}} \cup {Num(8), Absent} :
        ContentReportSave(ws, sent)
  \/ \E rt \in {"spam", "self_harm", "other"},
        sent \in {Num(n) : n \in 0..10} \cup {Tier("low"), Absent} :
        UserReportSave(rt, sent)
  \/ \E c \in {"u1", "adm"}, pr \in {"none", "high"}, page \in 1..2 : GetAll(c, pr, page)

SpecPriority == Init /\ [][NextPriority]_vars

(* ----------------------------- streams --------------------------------- *)

\* Number of stream documents that can ever be created
MaxStreams == 2

StreamIds == 1..MaxStreams

\* The accounts that start streams, and the accounts that watch them
Streamers == {"u1"}

Viewers == {"u2", "adm"}

\* Stream.findById(req.params.id)
FindStream(id) == id \in DOMAIN streams

\* Stream.findOne({streamerId: req.user.id, status: 'live'})
HasLiveStream(caller) ==
  \E i \in DOMAIN streams :
    streams[i].streamerId = caller /\ streams[i].status = "live"

\* Start requests that have passed the lookup but have not saved yet
PendingStarts == {q \in Procs : proc[q].pc = "st_save"}

\* POST /start up to the existing-stream lookup: the title check and
\* Stream.findOne
StartLookup(p, caller, hasTitle) ==
  /\ Free(p)
  /\ Len(streams) + Cardinality(PendingStarts) < MaxStreams
  /\ IF ~hasTitle
       THEN Respond(p, "validation")
     ELSE IF HasLiveStream(caller)
       THEN Respond(p, "already_live")
     ELSE /\ proc' = [proc EXCEPT ![p] =
               [IdleProc EXCEPT !.pc = "st_save", !.op = "start", !.caller = caller]]
          /\ lastResult' = "none"
  /\ UNCHANGED <<reports, nextId, users, nreq, dirCalls, adminLog, listed, streams,
                 adminNotifications, notifications>>

\* new Stream({streamerId, status: 'live', ...}): the counters take the schema
\* defaults and nobody is watching
NewStream(caller) ==
  [streamerId |-> caller, status |-> "live", viewers |-> <<>>, totalViews |-> 0,
   currentViewers |-> 0, peakViewers |-> 0]

\* POST /start from createMeeting() to the response: the room cannot be
\* created and the request ends 500, or the stream is saved as live; the
\* update of the streamer's profile that follows writes none of the fields
\* carried here and may throw after the stream is stored
StartSave(p) ==
  /\ proc[p].pc = "st_save"
  /\ \/ /\ streams' = streams
        /\ Respond(p, "error")
     \/ /\ streams' = Append(streams, NewStream(proc[p].caller))
        /\ \/ Respond(p, "created")
           \/ Respond(p, "error")
  /\ UNCHANGED <<reports, nextId, users, nreq, dirCalls, adminLog, listed,
                 adminNotifications, notifications>>

\* POST /:id/end: the lookup, the ownership check, stream.status = 'ended' and
\* its save, then User.findByIdAndUpdate with $inc of
\* streamerProfile.totalViews by stream.totalViews, which is applied or throws.
\* The handler does not read stream.status
EndStream(caller, id) ==
  /\ nreq < MaxOps
  /\ IF ~FindStream(id)
       THEN /\ lastResult' = "not_found"
            /\ UNCHANGED <<streams, users, nreq>>
     ELSE IF streams[id].streamerId # caller
       THEN /\ lastResult' = "forbidden"
            /\ UNCHANGED <<streams, users, nreq>>
     ELSE /\ streams' = [streams EXCEPT ![id].status = "ended"]
          /\ nreq' = nreq + 1
          /\ \/ /\ users' = [users EXCEPT ![caller].totalViews =
                                @ + streams[id].totalViews]
                /\ lastResult' = "ok"
             \/ /\ users' = users
                /\ lastResult' = "error"
  /\ UNCHANGED <<reports, nextId, proc, dirCalls, adminLog, listed,
                 adminNotifications, notifications>>

\* One element of stream.viewers: leftAt is set or not
Viewer(userId, left) == [userId |-> userId, left |-> left]

\* stream.viewers.filter(v => !v.leftAt).length
Watching(viewers) == Cardinality({k \in DOMAIN viewers : ~viewers[k].left})

\* stream.viewers.findIndex(v => v.userId && v.userId.toString() === req.user.id):
\* whether any element, left or not, is the caller's
HasViewer(viewers, caller) == \E k \in DOMAIN viewers : viewers[k].userId = caller

\* The join of a caller with no element in viewers: the push, totalViews += 1,
\* currentViewers recomputed, peakViewers raised to it
Joined(stream, caller) ==
  LET vs == Append(stream.viewers, Viewer(caller, FALSE))
      cur == Watching(vs)
  IN [stream EXCEPT !.viewers = vs,
                    !.totalViews = @ + 1,
                    !.currentViewers = cur,
                    !.peakViewers = IF cur > @ THEN cur ELSE @]

\* GET /:id/join: the lookup, the live check, and the viewer bookkeeping
JoinStream(caller, id) ==
  /\ IF ~FindStream(id)
       THEN /\ lastResult' = "not_found"
            /\ streams' = streams
     ELSE IF streams[id].status # "live"
       THEN /\ lastResult' = "not_live"
            /\ streams' = streams
     ELSE /\ lastResult' = "joined"
          /\ streams' = IF HasViewer(streams[id].viewers, caller)
                          THEN streams
                          ELSE [streams EXCEPT ![id] = Joined(@, caller)]
  /\ UNCHANGED <<reports, nextId, users, proc, nreq, dirCalls, adminLog, listed,
                 adminNotifications, notifications>>

\* stream.viewers.find(v => ... === req.user.id && !v.leftAt): the first element
\* of the caller that has not left, 0 when there is none
OpenViewer(viewers, caller) ==
  LET open == {k \in DOMAIN viewers : viewers[k].userId = caller /\ ~viewers[k].left}
  IN IF open = {} THEN 0 ELSE CHOOSE k \in open : \A j \in open : k <= j

\* The leave of a caller whose element k has not left: leftAt is set and
\* currentViewers recomputed
Left(stream, k) ==
  LET vs == [stream.viewers EXCEPT ![k].left = TRUE]
  IN [stream EXCEPT !.viewers = vs, !.currentViewers = Watching(vs)]

\* POST /:id/leave: the lookup and the viewer bookkeeping; the handler does
\* not read stream.status
LeaveStream(caller, id) ==
  /\ IF ~FindStream(id)
       THEN /\ lastResult' = "not_found"
            /\ streams' = streams
       ELSE /\ lastResult' = "left"
            /\ streams' = IF OpenViewer(streams[id].viewers, caller) = 0
                            THEN streams
                            ELSE [streams EXCEPT ![id] =
                                    Left(@, OpenViewer(streams[id].viewers, caller))]
  /\ UNCHANGED <<reports, nextId, users, proc, nreq, dirCalls, adminLog, listed,
                 adminNotifications, notifications>>

NextStreams ==
  \/ \E p \in Procs, c \in Streamers, ht \in BOOLEAN : StartLookup(p, c, ht)
  \/ \E p \in Procs : StartSave(p)
  \/ \E c \in Streamers \cup {"u2"}, id \in StreamIds : EndStream(c, id)
  \/ \E c \in Viewers, id \in StreamIds : JoinStream(c, id)
  \/ \E c \in Viewers, id \in StreamIds : LeaveStream(c, id)

SpecStreams == Init /\ [][NextStreams]_vars

(* ----------------------------- admin notifications --------------------- *)

\* Number of AdminNotification documents that can ever be created
MaxNotifications == 2

\* The values of targetAudience a request carries here; "none" is a body
\* without the field. 'premium' and 'new' select users by fields the model
\* does not carry
Audiences == {"all", "specific", "none"}

\* AdminNotification.getTargetUsers(targetAudience, specificGroup): every user
\* for 'all' and by default, nobody for 'specific'
GetTargetUsers(targetAudience) ==
  IF targetAudience = "specific" THEN {} ELSE Users

\* new AdminNotification({...}): status from scheduledFor, totalRecipients from
\* the target users, deliveredCount at its default
NewAdminNotification(targetAudience, scheduled, targetUsers) ==
  [targetAudience |-> IF targetAudience = "none" THEN "all" ELSE targetAudience,
   status |-> IF scheduled THEN "scheduled" ELSE "sent",
   totalRecipients |-> Cardinality(targetUsers),
   deliveredCount |-> 0]

\* targetUsers.map(user => ({recipient: user._id, type: 'admin',
\* data: {adminNotificationId}, ...}))
PerUser(targetUsers, id) ==
  {[recipient |-> u, adminNotificationId |-> id] : u \in targetUsers}

\* POST /notifications/send: the title and message check, the target users,
\* the save of the admin record, then Notification.insertMany and the save of
\* deliveredCount when there is a recipient. Each write may throw and end the
\* request in 500; an insertMany that throws has stored some of its documents
SendNotification(hasText, targetAudience, scheduled) ==
  /\ Len(adminNotifications) < MaxNotifications
  /\ LET targetUsers == GetTargetUsers(targetAudience)
         id == Len(adminNotifications) + 1
         doc == NewAdminNotification(targetAudience, scheduled, targetUsers)
         all == PerUser(targetUsers, id)
     IN \/ /\ ~hasText
           /\ lastResult' = "validation"
           /\ UNCHANGED <<adminNotifications, notifications>>
        \/ /\ hasText
           /\ lastResult' = "error"
           /\ UNCHANGED <<adminNotifications, notifications>>
        \/ /\ hasText
           /\ all = {}
           /\ adminNotifications' = Append(adminNotifications, doc)
           /\ notifications' = notifications
           /\ lastResult' = "sent"
        \/ /\ hasText
           /\ all # {}
           /\ \E some \in (SUBSET all) \ {all} :
                /\ adminNotifications' = Append(adminNotifications, doc)
                /\ notifications' = notifications \cup some
                /\ lastResult' = "error"
        \/ /\ hasText
           /\ all # {}
           /\ notifications' = notifications \cup all
           /\ \/ /\ adminNotifications' = Append(adminNotifications,
                        [doc EXCEPT !.deliveredCount = Cardinality(all)])
                 /\ lastResult' = "sent"
              \/ /\ adminNotifications' = Append(adminNotifications, doc)
                 /\ lastResult' = "error"
  /\ UNCHANGED <<reports, nextId, users, proc, nreq, dirCalls, adminLog, listed,
                 streams>>

NextNotify ==
  \E ht \in BOOLEAN, aud \in Audiences, sch \in BOOLEAN : SendNotification(ht, aud, sch)

SpecNotify == Init /\ [][NextNotify]_vars

(* ----------------------------- properties ------------------------------ *)

\* The stored reports of one (reporter, targetKind, targetId) tuple
ReportsFor(rep, kind, target) ==
  {i \in Stored : /\ reports[i].reporter = rep
                  /\ reports[i].kind = kind
                  /\ reports[i].target = target}

\* Process p takes a step of its request
Steps(p) == proc'[p] # proc[p]

\* Process p is at a step that writes a loaded report
AtWrite(p) == proc[p].pc \in {"save", "ta_apply", "us_apply"}

IsPrefix(s, t) == Len(s) <= Len(t) /\ \A k \in DOMAIN s : t[k] = s[k]

\* C1: in every reachable state at most one open report exists per
\* (reporterId, targetKind, targetId) of a submitting user, also when two
\* submissions interleave.
C1_AtMostOneOpen ==
  \A i \in Stored :
    reports[i].reporter \in Reporters =>
    Cardinality(OpenFor(reports[i].reporter, reports[i].kind, reports[i].target)) <= 1

\* C2: a submit whose duplicate lookup runs while an open report of the same
\* (reporter, targetKind, target) is stored answers the duplicate error and
\* leaves the stored reports unchanged.
C2_DuplicateRejected ==
  [][\A p \in Procs :
       (/\ proc[p].pc = "sub_lookup"
        /\ OpenFor(proc[p].caller, proc[p].kind, proc[p].target) # {}
        /\ Steps(p))
       => (lastResult' = "duplicate" /\ reports' = reports /\ proc'[p].pc = "idle")]_vars

\* A duplicate answer has just been sent while the only stored report is open
C2_Witness ==
  /\ lastResult = "duplicate"
  /\ Cardinality(Stored) = 1
  /\ \A i \in Stored : IsOpen(reports[i])

\* C3: once the only stored report of a tuple is resolved or dismissed, a new
\* submit for that tuple passes the duplicate check (and goes on to create a
\* pending report).
C3_ReReportAllowed ==
  [][\A p \in Procs :
       (/\ proc[p].pc = "sub_lookup"
        /\ Steps(p)
        /\ Cardinality(ReportsFor(proc[p].caller, proc[p].kind, proc[p].target)) = 1
        /\ OpenFor(proc[p].caller, proc[p].kind, proc[p].target) = {})
       => proc'[p].pc = "sub_save"]_vars

\* The take-action request that appended entry e is still running
InFlight(e) == \E p \in Procs : proc[p].op = "take_action" /\ proc[p].req = e.req

\* C4: no take-action request ends with a ban recorded on the report while the
\* reported user is not suspended.
C4_BanEnforced ==
  \A i \in Stored :
    \A k \in DOMAIN reports[i].actionsTaken :
      LET e == reports[i].actionsTaken[k]
      IN (e.action \in BanActions /\ ~InFlight(e))
           => users[reports[i].target].status = "suspended"

\* C5: a report whose status is resolved or dismissed keeps that status.
C5_TerminalIsFinal ==
  [][\A i \in Stored \cap DOMAIN reports' :
       reports[i].status \in TerminalStatuses
         => reports'[i].status = reports[i].status]_vars

\* C6: a moderator request that loaded a resolved report, and is not the
\* repetition of an action the log already holds, answers the
\* invalid-transition error and leaves actionsTaken unchanged.
C6_ResolvedImmutable ==
  [][\A p \in Procs :
       (/\ AtWrite(p)
        /\ proc[p].loadedResolved
        /\ proc[p].rid \in Stored
        /\ ~HasKey(reports[proc[p].rid].actionsTaken, proc[p].action, proc[p].caller)
        /\ Steps(p))
       => (/\ lastResult' = "invalid_transition"
           /\ reports'[proc[p].rid].actionsTaken = reports[proc[p].rid].actionsTaken)]_vars

\* C7: every change of a report's status follows an edge of the state machine.
C7_FollowsEdges ==
  [][\A i \in Stored \cap DOMAIN reports' :
       reports'[i].status # reports[i].status
         => <<reports[i].status, reports'[i].status>> \in Edges]_vars

\* The write step of p went through
Wrote(p) ==
  /\ AtWrite(p)
  /\ Steps(p)
  /\ \/ lastResult' = "ok"
     \/ proc'[p].pc = "ta_suspend"

C9_Idempotent ==
  /\ \A c, d \in dirCalls :
       (c.rid = d.rid /\ c.action = d.action /\ c.by = d.by) => c = d
  /\ \A i \in Stored :
       \A k, j \in DOMAIN reports[i].actionsTaken :
         LET log == reports[i].actionsTaken
         IN (/\ log[k].action \in BanActions
             /\ log[k].action = log[j].action
             /\ log[k].by = log[j].by) => k = j

\* C10: across every step that keeps a report stored, the report's previous
\* actionsTaken is a prefix of its new actionsTaken.
C10_AppendOnly ==
  [][\A i \in Stored \cap DOMAIN reports' :
       IsPrefix(reports[i].actionsTaken, reports'[i].actionsTaken)]_vars

\* Two requests have appended to one log, one after the other
C10_Witness ==
  \E i \in Stored :
    LET log == reports[i].actionsTaken
    IN Len(log) = 2 /\ log[1].req < log[2].req

\* C11: every change of a report's status comes in one update with the append
\* of an entry to its actionsTaken, so a report never has undergone more status
\* changes than its log has entries.
C11_StatusWithEntry ==
  [][\A i \in Stored \cap DOMAIN reports' :
       reports'[i].status # reports[i].status
         => Len(reports'[i].actionsTaken) = Len(reports[i].actionsTaken) + 1]_vars

\* C12: a take-action request whose action is not one of the six or whose
\* details are shorter than 10 characters ends at once with the validation
\* answer; reports and user accounts are unchanged.
C12_RejectedBeforeMutation ==
  [][\A p \in Procs, c \in {"u1", "adm"}, rid \in ReportIds,
        a \in {"warning", "temporary_ban", "permanent_ban", "bogus"},
        n \in {MinDetails - 1, MinDetails} :
       ((a \notin TakeActions \/ n < MinDetails) /\ TakeActionLoad(p, c, rid, a, n))
         => /\ lastResult' = "action_rejected"
            /\ proc'[p].pc = "idle"
            /\ reports' = reports
            /\ users' = users
            /\ dirCalls' = dirCalls]_vars

\* A take-action request has just been refused by the validators while a
\* pending report is stored and its reported user is untouched
C12_Witness ==
  /\ lastResult = "action_rejected"
  /\ \E i \in Stored :
       /\ reports[i].kind = "user"
       /\ reports[i].status = "pending"
       /\ reports[i].actionsTaken = <<>>
       /\ users[reports[i].target] = InitUser

\* C13: a take-action request that ends successfully with temporary_ban leaves
\* the reported user suspended with an expiry 7 days ahead; with permanent_ban
\* it leaves the user suspended with no expiry, whatever the account held before.
C13_BanExpiry ==
  [][\A p \in Procs :
       (proc[p].pc = "ta_suspend" /\ Steps(p) /\ lastResult' = "ok")
         => LET u == users'[proc[p].target]
            IN /\ u.status = "suspended"
               /\ u.suspendedUntil =
                    IF proc[p].action = "temporary_ban" THEN "in7days" ELSE "none"]_vars

\* The suspend writes applied for report rid
SuspendsOf(calls, rid) == {c \in calls : c.rid = rid}

TargetKnown(kind, target) ==
  IF kind = "user" THEN target \in Users ELSE target \in Posts

\* C15: a submit whose target does not exist answers target-not-found and
\* creates nothing; a user-report submit reaches the duplicate lookup, and a
\* report reaches the store, only with a target that exists.
C15_MissingTargetRejected ==
  [][/\ \A p \in Procs, c \in Reporters, t \in {"u1", "u2", NoUser} :
          (t \notin Users /\ SubmitUserStart(p, c, t))
            => /\ lastResult' = "target_not_found"
               /\ proc'[p].pc = "idle"
               /\ reports' = reports
     /\ \A p \in Procs, c \in Reporters, ty \in ContentTypes, t \in Posts \cup {NoPost} :
          (t \notin Posts /\ SubmitContentStart(p, c, ty, t))
            => /\ lastResult' = "target_not_found"
               /\ proc'[p].pc = "idle"
               /\ reports' = reports
     /\ \A p \in Procs :
          proc'[p].pc \in {"sub_lookup", "sub_save"}
            => TargetKnown(proc'[p].kind, proc'[p].target)
     /\ \A i \in DOMAIN reports' :
          TargetKnown(reports'[i].kind, reports'[i].target)]_vars

\* A submit has just been answered target-not-found and no report exists
C15_Witness ==
  /\ lastResult = "target_not_found"
  /\ Stored = {}
  /\ nextId = 1

\* C16: a user-report submit that names the caller as the reported user is
\* refused and creates nothing, and no stored user report has its reporter as
\* its reported user.
C16_NoSelfReport ==
  [][/\ \A p \in Procs, c \in Reporters :
          SubmitUserStart(p, c, c)
            => /\ lastResult' = "self_report"
               /\ proc'[p].pc = "idle"
               /\ reports' = reports
     /\ \A i \in DOMAIN reports' :
          reports'[i].kind = "user" => reports'[i].reporter # reports'[i].target]_vars

\* A self-report has just been refused while a user report is stored
C16_Witness ==
  /\ lastResult = "self_report"
  /\ \E i \in Stored : reports[i].kind = "user"

\* C17: every stored report's priority is max(normalizedSeverity(severity),
\* reasonFloor(reasonCode)) of its own reason code and severity.
C17_PriorityIsFunction ==
  \A i \in Stored :
    reports[i].priority = PriorityOf(reports[i].reportType, reports[i].severity)

\* The tier of each numeric severity 1..10
ExpectedTier == <<"low", "low", "medium", "medium", "medium",
                  "high", "high", "urgent", "urgent", "urgent">>

\* C18: normalization sends the numeric severities 8..10 to urgent, 6..7 to
\* high, 3..5 to medium and 1..2 to low, and every tier to itself.
C18_SeverityNormalization ==
  /\ \A n \in 1..10 : NormalizedSeverity(Num(n)) = ExpectedTier[n]
  /\ \A t \in TierNames : NormalizedSeverity(Tier(t)) = t
  /\ \A i \in Stored :
       LET v == reports[i].severity
       IN NormalizedSeverity(v) = IF v.tag = "tier" THEN v.tier ELSE ExpectedTier[v.num]

\* Reports of a numeric severity at the urgent threshold and of a tier
\* severity are both stored
C18_Witness ==
  \E i, j \in Stored :
    /\ reports[i].severity = Num(8)
    /\ reports[j].severity.tag = "tier"

C20_AuditMirrored ==
  [][/\ IsPrefix(adminLog, adminLog')
     /\ \A i \in Stored \cap DOMAIN reports' :
          (/\ lastResult' # "error"
           /\ \/ reports'[i].status # reports[i].status
              \/ reports'[i].actionsTaken # reports[i].actionsTaken)
            => /\ Len(adminLog') = Len(adminLog) + 1
               /\ adminLog'[Len(adminLog')].rid = i]_vars

\* C21: a take-action or ban-user request whose reportId names no stored report
\* answers not-found and changes no user account.
C21_NotFoundNoConsequence ==
  [][/\ \A p \in Procs, c \in {"u1", "adm"}, rid \in ReportIds,
          a \in {"warning", "temporary_ban", "permanent_ban"} :
          (~FindReport(rid) /\ IsModerator(c) /\ TakeActionLoad(p, c, rid, a, MinDetails))
            => /\ lastResult' = "not_found"
               /\ users' = users
     /\ \A p \in Procs, u \in {"u2"}, rid \in ReportIds :
          (~FindReport(rid) /\ BanUserStart(p, u, TRUE, rid))
            => users' = users
     /\ \A p \in Procs :
          (proc[p].pc = "ban_find" /\ ~FindReport(proc[p].rid) /\ Steps(p))
            => lastResult' = "not_found"]_vars

\* Rank of the priority of a stored report on the scale low < medium < high < urgent
RankOf(i) == TierRank(reports[i].priority)

\* C22: in the result of the list-all operation no report of a lower tier
\* precedes a report of a higher tier (urgent > high > medium > low), and of
\* two reports of one tier the newer comes first.
C22_TriageOrdered ==
  \A k, j \in DOMAIN listed :
    k < j => \/ RankOf(listed[k]) > RankOf(listed[j])
             \/ RankOf(listed[k]) = RankOf(listed[j]) /\ listed[k] > listed[j]

\* C23: every moderation operation (status update, take-action, moderate,
\* resolve, ban-user with reportId, admin report patch) leaves the reporter, the
\* target kind and id, and the submission context (reporter IP, user agent,
\* submission timestamp) of every report as they were.
C23_SubmissionImmutable ==
  [][\A i \in Stored \cap DOMAIN reports' :
       /\ reports'[i].reporter = reports[i].reporter
       /\ reports'[i].kind = reports[i].kind
       /\ reports'[i].target = reports[i].target
       /\ reports'[i].context = reports[i].context]_vars

\* A report filed by a submit, with the client's address on it, has been
\* through a moderation write: its log has an entry and it is resolved
C23_Witness ==
  \E i \in Stored :
    /\ reports[i].context = Context("u1", i)
    /\ reports[i].status = "resolved"
    /\ Len(reports[i].actionsTaken) >= 1

\* The callers, actions and lengths of details a take-action request carries
TakeActionInputs ==
  {"u1", "adm"} \X {"warning", "temporary_ban", "permanent_ban", "bogus"}
                \X {MinDetails - 1, MinDetails}

\* The caller's role is neither admin nor moderator
Unprivileged(c) == role[c] \notin {"admin", "moderator"}

\* The request of p ends at once and changes neither a report nor an account
EndsUnchanged(p) ==
  /\ proc'[p].pc = "idle"
  /\ reports' = reports
  /\ users' = users
  /\ dirCalls' = dirCalls

\* C24 as stated: a status-update or take-action request whose caller is
\* neither admin nor moderator is answered access-denied before the report is
\* loaded, and changes neither any report nor any user's account state.
C24_NonModeratorDenied ==
  [][/\ \A p \in Procs, rid \in ReportIds, in \in TakeActionInputs :
          (Unprivileged(in[1]) /\ TakeActionLoad(p, in[1], rid, in[2], in[3]))
            => (lastResult' = "forbidden" /\ EndsUnchanged(p))
     /\ \A p \in Procs, c \in {"u1", "adm"}, rid \in ReportIds,
           st \in StatusWireValues \cup {"escalated"} :
          (Unprivileged(c) /\ UpdateStatusLoad(p, c, rid, st))
            => (lastResult' = "forbidden" /\ EndsUnchanged(p))]_vars

\* C24, amended: such a request is refused before the report is loaded and
\* changes neither any report nor any user's account state; the answer is
\* access-denied when the body passes the validators and validation-failed
\* when it does not.
C24_NonModeratorRejected ==
  [][/\ \A p \in Procs, rid \in ReportIds, in \in TakeActionInputs :
          (Unprivileged(in[1]) /\ TakeActionLoad(p, in[1], rid, in[2], in[3]))
            => /\ EndsUnchanged(p)
               /\ lastResult' = IF ValidTakeAction(in[2], in[3])
                                  THEN "forbidden" ELSE "action_rejected"
     /\ \A p \in Procs, c \in {"u1", "adm"}, rid \in ReportIds,
           st \in StatusWireValues \cup {"escalated"} :
          (Unprivileged(c) /\ UpdateStatusLoad(p, c, rid, st))
            => /\ EndsUnchanged(p)
               /\ lastResult' = IF st \in StatusWireValues
                                  THEN "forbidden" ELSE "validation"]_vars

\* A request has just been answered access-denied while a pending user report
\* is stored and its reported user is untouched
C24_Witness ==
  /\ lastResult = "forbidden"
  /\ \E i \in Stored :
       /\ reports[i].kind = "user"
       /\ reports[i].status = "pending"
       /\ reports[i].actionsTaken = <<>>
       /\ users[reports[i].target] = InitUser

\* C25: for each content kind of post, reel, story and comment, a content
\* submit whose target exists and which the reporter has not reported before
\* is not refused: it passes the existence check and the duplicate lookup, and
\* its save stores a report with status pending.
C25_ContentKindsCreatable ==
  [][/\ \A p \in Procs, c \in Reporters, ty \in ContentTypes, t \in Posts :
          (TargetKnown(ty, t) /\ ~HasReported(c, ty, t) /\ SubmitContentStart(p, c, ty, t))
            => /\ lastResult' # "target_not_found"
               /\ proc'[p].pc = "sub_lookup"
     /\ \A p \in Procs :
          (/\ proc[p].pc = "sub_lookup"
           /\ proc[p].kind \in ContentTypes
           /\ ~HasReported(proc[p].caller, proc[p].kind, proc[p].target)
           /\ Steps(p))
            => proc'[p].pc = "sub_save"
     /\ \A p \in Procs :
          (proc[p].pc = "sub_save" /\ proc[p].kind \in ContentTypes /\ Steps(p))
            => /\ nextId \in DOMAIN reports'
               /\ reports'[nextId].kind = proc[p].kind
               /\ reports'[nextId].status = "pending"]_vars

\* The entries of a log that request req appended
EntriesOf(log, req) == {k \in DOMAIN log : log[k].req = req}

\* C26: a ban-user request that names an existing report is all-or-nothing.
\* When it has answered, either the user is deactivated and the report is
\* resolved with exactly one ban entry of this request, or neither the user nor
\* the report has changed; a failure of the first write and a request without
\* a reason change nothing.
C26_BanAllOrNothing ==
  [][/\ \A p \in Procs :
          (proc[p].op = "ban_user" /\ proc[p].pc = "save" /\ Steps(p))
            => LET rid == proc[p].rid
                   u == users'[proc[p].target]
               IN \/ /\ lastResult' = "ok"
                     /\ ~u.isActive
                     /\ reports'[rid].status = "resolved"
                     /\ Cardinality(EntriesOf(reports'[rid].actionsTaken, proc[p].req)) = 1
                     /\ \A k \in EntriesOf(reports'[rid].actionsTaken, proc[p].req) :
                          reports'[rid].actionsTaken[k].action = "ban"
                  \/ /\ lastResult' = "error"
                     /\ u.isActive
                     /\ reports' = reports
     /\ \A p \in Procs, u \in {"u2"}, hr \in BOOLEAN, rid \in ReportIds :
          (BanUserStart(p, u, hr, rid) /\ (~hr \/ lastResult' = "error"))
            => /\ users' = users
               /\ reports' = reports
               /\ proc'[p].pc = "idle"]_vars

\* The live streams of one streamer
LiveOf(s) == {i \in DOMAIN streams : streams[i].streamerId = s /\ streams[i].status = "live"}

\* C27: in every reachable state a streamer has at most one stream with status
\* live, also when two start requests of one user both run the lookup before
\* either saves.
C27_OneLiveStream ==
  \A s \in Users : Cardinality(LiveOf(s)) <= 1

RECURSIVE EndedViews(_, _, _)
\* The sum of totalViews over the ended streams among the first n of a
\* streamer in a Stream collection
EndedViews(strs, s, n) ==
  IF n = 0 THEN 0
  ELSE EndedViews(strs, s, n - 1) +
         (IF strs[n].streamerId = s /\ strs[n].status = "ended"
            THEN strs[n].totalViews ELSE 0)

\* C28: end-stream calls add a stream's totalViews to the streamer's profile
\* total at most once per stream, however often they are repeated, and exactly
\* once when a call has answered success; a stream that has ended never
\* returns to live.
C28_ViewsAddedOnce ==
  [][/\ \A i \in DOMAIN streams :
          streams[i].status = "ended" => streams'[i].status = "ended"
     /\ \A s \in Users :
          users'[s].totalViews <= EndedViews(streams', s, Len(streams'))
     /\ \A c \in Streamers, id \in StreamIds :
          (EndStream(c, id) /\ lastResult' = "ok")
            => users'[c].totalViews = EndedViews(streams', c, Len(streams'))]_vars

\* The users with an element in viewers that has not left
OpenViewers(viewers) == {viewers[k].userId : k \in {j \in DOMAIN viewers : ~viewers[j].left}}

\* The users with any element in viewers
AllViewers(viewers) == {viewers[k].userId : k \in DOMAIN viewers}

\* C29: on a live stream, a user whose latest call is a join counts as a current
\* viewer and one whose latest call is a leave does not: after a join that
\* succeeds the caller has an element that has not left, after a leave the
\* caller has none; currentViewers is the number of users with such an
\* element, peakViewers is at least currentViewers, and totalViews is the
\* number of distinct users who have joined.
C29_ViewerCounts ==
  [][/\ \A c \in Viewers, id \in StreamIds :
          (JoinStream(c, id) /\ lastResult' = "joined")
            => c \in OpenViewers(streams'[id].viewers)
     /\ \A c \in Viewers, id \in StreamIds :
          (LeaveStream(c, id) /\ lastResult' = "left")
            => c \notin OpenViewers(streams'[id].viewers)
     /\ \A i \in DOMAIN streams' :
          /\ streams'[i].currentViewers = Cardinality(OpenViewers(streams'[i].viewers))
          /\ streams'[i].peakViewers >= streams'[i].currentViewers
          /\ streams'[i].totalViews = Cardinality(AllViewers(streams'[i].viewers))]_vars

\* The per-user notifications created for admin notification id
DeliveredFor(notifs, id) == {n \in notifs : n.adminNotificationId = id}

\* C30: an admin notification sent with a scheduledFor time is stored with
\* status scheduled, and no per-user notification of it exists while it has
\* that status; for one sent at once, when the request has answered success,
\* deliveredCount is the number of per-user notifications created for it and
\* is totalRecipients.
C30_ScheduledNotDelivered ==
  [][/\ \A id \in DOMAIN adminNotifications' :
          adminNotifications'[id].status = "scheduled"
            => DeliveredFor(notifications', id) = {}
     /\ \A aud \in Audiences, sch \in BOOLEAN :
          (SendNotification(TRUE, aud, sch) /\ lastResult' = "sent")
            => LET id == Len(adminNotifications')
                   doc == adminNotifications'[id]
               IN /\ doc.status = IF sch THEN "scheduled" ELSE "sent"
                  /\ ~sch => /\ doc.deliveredCount =
                                  Cardinality(DeliveredFor(notifications', id))
                             /\ doc.deliveredCount = doc.totalRecipients]_vars
====
